---------------------------- MODULE Spec2Model ----------------------------
(***************************************************************************)
(* Model of the pytest/Playwright harness for Pinterest:                   *)
(*   - utils/pinterest_api.py : BaseAPIClient / PinterestAPIClient, the    *)
(*     requests Session with its urllib3 Retry adapter, APIResponse,       *)
(*     download_file;                                                      *)
(*   - pages/home_page.py, core/base_page.py : the search-box resolver     *)
(*     with its fallback chain, is_visible_slow and take_screenshot.       *)
(*   - core/base_page.py : the click, fill, get_text, is_visible_slow and  *)
(*     take_screenshot wrappers as calls;                                  *)
(*   - config/settings.py : the randomized budgets of TimeoutConfig;       *)
(*   - pages/home_page.py : search_for;                                    *)
(*   - pages/search_result_page.py : get_image_urls, wait_for_results;     *)
(*   - pages/login_page.py : login;                                        *)
(*   - tests/conftest.py : the api_client fixture.                         *)
(* The components share no state beyond what their code shares; each       *)
(* specification runs one of them.                                         *)
(***************************************************************************)
EXTENDS Integers, Sequences, FiniteSets, TLC

VARIABLES
    httpPc,            \* position of the client: idle / sending / opening / streaming / returned
    op,                \* the call in progress: kind (request | download), method, path, nchunks
    total,             \* urllib3 Retry.total still available to the call in progress
    attempts,          \* HTTP requests put on the wire by the call in progress
    history,           \* status of every attempt of the call (0 = the attempt failed in transport)
    exc,               \* the exception that ended the call's dispatch or transfer ("none": none did)
    ret,               \* what the call returned (or raised) to its caller
    payloads,          \* chunks of the payload the server held behind each url downloaded so far
    fs,                \* the files at the destination paths
    loopIdx,           \* test_download_high_res_images: index of the next url of the loop
    downloaded_count,  \* test_download_high_res_images: the caller's count of true results
    uiPc,              \* position of HomePage._get_active_search_box
    page,              \* what each candidate's bounded wait will observe
    evaluated,         \* candidates whose wait has been run in this resolve call, in order
    shots,             \* take_screenshot calls made in this resolve call
    uiLog,             \* events of the resolve call, in order
    uiRet,             \* what the resolver returned (or raised)
    fixturePhase,      \* api_client fixture: yielded (tests run) / torn_down
    closes,            \* calls of BaseAPIClient.close on the fixture's client
    wPc,               \* position of a BasePage wrapper call: idle / called / capturing / reraising / returned
    wOp,               \* the wrapper call: name, description, what the Playwright operation under it does
    wShots,            \* names passed to take_screenshot during the wrapper call, in order
    wLog,              \* log records and Playwright operations of the wrapper call, in order
    wRet,              \* what the wrapper call returned (or raised)
    cfgPc,             \* config.settings: unloaded / loaded (the module was imported)
    timeouts,          \* settings.timeouts: the randomized budgets of the TimeoutConfig instance
    reads,             \* the values each budget was read as by the page objects, in order
    delays,            \* the delay argument of every locator.type call, in order
    searchPc,          \* position of HomePage.search_for: idle / resolving / clicking / calling_type / typing / pressing / returned
    searchDelay,       \* the delay argument of the search_box.type call in progress
    searchEvents,      \* Playwright operations search_for made on a search box handle, in order
    searchRet,         \* what search_for returned (or raised)
    imgPc,             \* position of SearchResultPage.get_image_urls: idle / loop / returned
    images,            \* the loaded pin images of the page, in page order: srcset and src of each
    limit,             \* the limit argument of the call
    imgIdx,            \* images the loop has gone through
    urls,              \* the list the call builds and returns
    resPc,             \* position of SearchResultPage.wait_for_results: idle / waiting / counting / returned
    pinsOnPage,        \* elements matching PIN_ITEM on the page now
    minCount,          \* the min_count argument of the call
    waitOutcome,       \* how the wait for the min_count-th pin ended ("none": it has not)
    removed,           \* a pin left the page after the wait ended
    resLog,            \* log records of the call, in order
    resRet,            \* what wait_for_results returned (or raised)
    loginPc,           \* position of LoginPage.login: idle / the step to run next / returned
    loginUrl,          \* the page's URL: "/login" or a URL without it
    loginLog,          \* log records of the login call, in order
    loginShots,        \* names passed to take_screenshot during the login call
    loginRet           \* what login returned (or raised), and the step that raised

fixtureVars == <<fixturePhase, closes>>
httpVars == <<httpPc, op, total, attempts, history, exc, ret, payloads, fs, loopIdx,
             downloaded_count, fixtureVars>>
uiVars == <<uiPc, page, evaluated, shots, uiLog, uiRet>>
wrapVars == <<wPc, wOp, wShots, wLog, wRet>>
cfgVars == <<cfgPc, timeouts, reads, delays>>
searchVars == <<searchPc, searchDelay, searchEvents, searchRet>>
imgVars == <<imgPc, images, limit, imgIdx, urls>>
resVars == <<resPc, pinsOnPage, minCount, waitOutcome, removed, resLog, resRet>>
loginVars == <<loginPc, loginUrl, loginLog, loginShots, loginRet>>
\* the state outside the HTTP client and the resolver
extVars == <<wrapVars, cfgVars, searchVars, imgVars, resVars, loginVars>>
vars == <<httpVars, uiVars, extVars>>

-----------------------------------------------------------------------------
(* Bounds of the model *)

\* chunks of the largest payload a server streams
MaxChunks == 2
\* urls the download loop of the test walks through
NumUrls == 2
\* random.randint(lo, hi) is sampled at RandSteps + 1 points from lo towards hi
RandSteps == 2
\* reads of one budget followed in a run
MaxReads == 2
\* characters of the keyword search_for types
KeywordLen == 2
\* loaded pin images on a result page
MaxImages == 2
\* pins a result page holds at most
MaxPins == 2

-----------------------------------------------------------------------------
(* utils/pinterest_api.py : constants and the Retry configuration *)

MAX_RETRIES == 3

RETRY_STATUS_CODES == {429, 500, 502, 503, 504}

HTTPMethod == {"GET", "POST", "PUT", "DELETE", "PATCH"}

\* Retry(allowed_methods=[...])
AllowedMethods == {"GET", "POST", "PUT", "DELETE", "PATCH"}

\* Retry(respect_retry_after_header) is left at its default: a 413/429/503
\* that carries a Retry-After header is retried as well
RetryAfterStatusCodes == {413, 429, 503}

\* the statuses the modelled servers answer with
ServerStatuses == {200, 304, 404, 413, 500, 503}

\* body of a response: empty text, a JSON document, text that is no JSON
Bodies == {"empty", "json", "text"}

\* statuses the image server answers a download with: accepted, refused by
\* raise_for_status, re-sent on Retry-After, re-sent by status_forcelist; the
\* body of a download is its payload, streamed chunk by chunk
DownloadStatuses == {200, 404, 413, 503}

\* exceptions and their base classes (requests.exceptions, builtins)
ExcNames == {"ConnectTimeout", "ReadTimeout", "ConnectionError", "RetryError",
             "InvalidURL", "HTTPError", "OSError", "none"}

Bases(e) ==
    CASE e = "ConnectTimeout"  -> {"ConnectionError", "Timeout", "RequestException", "Exception"}
      [] e = "ReadTimeout"     -> {"Timeout", "RequestException", "Exception"}
      [] e = "ConnectionError" -> {"ConnectionError", "RequestException", "Exception"}
      [] e = "RetryError"      -> {"RequestException", "Exception"}
      [] e = "InvalidURL"      -> {"RequestException", "Exception"}
      [] e = "HTTPError"       -> {"RequestException", "Exception"}
      [] e = "OSError"         -> {"Exception"}
      [] OTHER                 -> {}

\* failures of a single attempt on the wire
TransportErrors == {"ConnectTimeout", "ReadTimeout", "ConnectionError"}

-----------------------------------------------------------------------------
(* APIResponse *)

\* the dataclass, with its field defaults data=None, success=True, error_message=""
APIResponse(status_code, data, success, error_message) ==
    [kind |-> "APIResponse", status_code |-> status_code, data |-> data,
     success |-> success, error_message |-> error_message, exc |-> "none"]

\* APIResponse.is_ok
is_ok(r) == 200 <= r.status_code /\ r.status_code < 300

\* requests.Response.ok as _process_response reads it: raise_for_status()
\* raises for 400 <= status < 600 only
ResponseOk(status) == ~(400 <= status /\ status < 600)

\* what a call that lets an exception escape leaves its caller with
Raised(e) ==
    [kind |-> "raised", status_code |-> 0, data |-> "None",
     success |-> FALSE, error_message |-> "", exc |-> e]

BoolResult(b) ==
    [kind |-> "bool", status_code |-> 0, data |-> "None",
     success |-> b, error_message |-> "", exc |-> "none"]

NoResult ==
    [kind |-> "none", status_code |-> 0, data |-> "None",
     success |-> FALSE, error_message |-> "", exc |-> "none"]

\* BaseAPIClient._process_response
process_response(status, body) ==
    APIResponse(status,
                IF body = "empty" THEN "empty_dict"
                ELSE IF body = "json" THEN "parsed" ELSE "raw_text",
                ResponseOk(status),
                IF ResponseOk(status) THEN "" ELSE "reason")

\* mutant: the last clause, except RequestException, is missing
make_request_except_no_generic(e) ==
    IF "Timeout" \in Bases(e)
    THEN APIResponse(408, "None", FALSE, "Request timed out")
    ELSE IF "ConnectionError" \in Bases(e)
    THEN APIResponse(503, "None", FALSE, "Connection failed")
    ELSE Raised(e)

\* mutant: except ConnectionError is written above except Timeout
make_request_except_connection_first(e) ==
    IF "ConnectionError" \in Bases(e)
    THEN APIResponse(503, "None", FALSE, "Connection failed")
    ELSE IF "Timeout" \in Bases(e)
    THEN APIResponse(408, "None", FALSE, "Request timed out")
    ELSE IF "RequestException" \in Bases(e)
    THEN APIResponse(500, "None", FALSE, "str(e)")
    ELSE Raised(e)

\* the except clauses of BaseAPIClient._make_request, in their order
make_request_except(e) ==
    IF "Timeout" \in Bases(e)
    THEN APIResponse(408, "None", FALSE, "Request timed out")
    ELSE IF "ConnectionError" \in Bases(e)
    THEN APIResponse(503, "None", FALSE, "Connection failed")
    ELSE IF "RequestException" \in Bases(e)
    THEN APIResponse(500, "None", FALSE, "str(e)")
    ELSE Raised(e)

\* mutant: download_file catches requests.exceptions.RequestException only
download_except_requests_only(e) ==
    IF "RequestException" \in Bases(e) THEN BoolResult(FALSE) ELSE Raised(e)

\* the except clause of PinterestAPIClient.download_file
download_except(e) ==
    IF "Exception" \in Bases(e) THEN BoolResult(FALSE) ELSE Raised(e)

-----------------------------------------------------------------------------
(* The Retry mounted on the session by _create_session *)

\* mutant: the Retry is built without status_forcelist, every status is retried
is_retry_any_status(method, status, has_retry_after, left) ==
    method \in AllowedMethods

\* Retry.is_retry
is_retry(method, status, has_retry_after, left) ==
    /\ method \in AllowedMethods
    /\ \/ status \in RETRY_STATUS_CODES
       \/ (left > 0 /\ has_retry_after /\ status \in RetryAfterStatusCodes)

\* Retry.increment followed by Retry.is_exhausted
is_exhausted(left) == left - 1 < 0


-----------------------------------------------------------------------------
(* The files at the destination paths *)

Paths == 1..NumUrls

\* no file at the path
Absent == <<-1>>
\* a file left there by an earlier run
OldFile == <<0>>

\* the payload of n chunks, as iter_content yields it
Payload(n) == [k \in 1..n |-> k]

NoOp == [kind |-> "none", method |-> "GET", path |-> 0, nchunks |-> 0, read |-> 0]

-----------------------------------------------------------------------------
(* HTTP client: actions *)

\* the exception e leaves session.request / session.get / the with-block:
\* the except clauses of the operation in progress decide what the caller gets
Deliver(e) ==
    /\ exc' = e
    /\ ret' = IF op.kind = "request" THEN make_request_except(e) ELSE download_except(e)
    /\ httpPc' = "returned"

\* BaseAPIClient.get/post/put/patch/delete -> _make_request, up to the dispatch
StartRequest ==
    /\ httpPc = "idle"
    /\ fixturePhase = "yielded"
    /\ \E m \in HTTPMethod, urlValid \in BOOLEAN :
         /\ op' = [NoOp EXCEPT !.kind = "request", !.method = m]
         /\ total' = MAX_RETRIES
         /\ attempts' = 0
         /\ history' = <<>>
         /\ IF urlValid
            THEN httpPc' = "sending" /\ ret' = NoResult /\ exc' = "none"
            ELSE /\ httpPc' = "returned"
                 /\ exc' = "InvalidURL"
                 /\ ret' = make_request_except("InvalidURL")
    /\ UNCHANGED <<payloads, fs, loopIdx, downloaded_count>>
    /\ UNCHANGED <<fixtureVars, uiVars, extVars>>

\* test_download_high_res_images: the next download_file call of the loop,
\* up to self._session.get(url, stream=True, timeout=30)
StartDownload ==
    /\ httpPc = "idle"
    /\ fixturePhase = "yielded"
    /\ loopIdx <= NumUrls
    /\ \E n \in 0..MaxChunks :
         /\ payloads' = [payloads EXCEPT ![loopIdx] = n]
         /\ op' = [NoOp EXCEPT !.kind = "download", !.method = "GET",
                                !.path = loopIdx, !.nchunks = n]
    /\ total' = MAX_RETRIES
    /\ attempts' = 0
    /\ history' = <<>>
    /\ httpPc' = "sending"
    /\ exc' = "none"
    /\ ret' = NoResult
    /\ UNCHANGED <<fs, loopIdx, downloaded_count>>
    /\ UNCHANGED <<fixtureVars, uiVars, extVars>>

\* mutant: download_file without response.raise_for_status()
AcceptResponse_unchecked(status, body) ==
    IF op.kind = "request"
    THEN /\ ret' = process_response(status, body)
         /\ httpPc' = "returned"
         /\ exc' = exc
    ELSE httpPc' = "opening" /\ ret' = ret /\ exc' = exc

\* what the operation does with the response the adapter hands back
AcceptResponse(status, body) ==
    IF op.kind = "request"
    THEN /\ ret' = process_response(status, body)
         /\ httpPc' = "returned"
         /\ exc' = exc
    ELSE \* download_file: response.raise_for_status()
         IF ResponseOk(status)
         THEN httpPc' = "opening" /\ ret' = ret /\ exc' = exc
         ELSE Deliver("HTTPError")

\* one attempt on the wire answered by the server; the mounted Retry decides
\* whether the adapter sends again
AttemptResponse ==
    /\ httpPc = "sending"
    /\ \E status \in (IF op.kind = "download" THEN DownloadStatuses ELSE ServerStatuses),
          has_retry_after \in BOOLEAN,
          body \in (IF op.kind = "download" THEN {"empty"} ELSE Bodies) :
         /\ attempts' = attempts + 1
         /\ history' = Append(history, status)
         /\ IF is_retry(op.method, status, has_retry_after, total)
            THEN IF is_exhausted(total)
                 THEN Deliver("RetryError") /\ total' = total
                 ELSE /\ total' = total - 1
                      /\ httpPc' = "sending"
                      /\ ret' = ret
                      /\ exc' = exc
            ELSE AcceptResponse(status, body) /\ total' = total
    /\ UNCHANGED <<op, payloads, fs, loopIdx, downloaded_count>>
    /\ UNCHANGED <<fixtureVars, uiVars, extVars>>

\* one attempt on the wire that fails in transport
AttemptError ==
    /\ httpPc = "sending"
    /\ \E e \in TransportErrors :
         /\ attempts' = attempts + 1
         /\ history' = Append(history, 0)
         /\ IF is_exhausted(total)
            THEN Deliver(e) /\ total' = total
            ELSE /\ total' = total - 1
                 /\ httpPc' = "sending"
                 /\ ret' = ret
                 /\ exc' = exc
    /\ UNCHANGED <<op, payloads, fs, loopIdx, downloaded_count>>
    /\ UNCHANGED <<fixtureVars, uiVars, extVars>>

\* download_file: open(save_path, "wb")
OpenFile ==
    /\ httpPc = "opening"
    /\ \/ /\ fs' = [fs EXCEPT ![op.path] = <<>>]
          /\ httpPc' = "streaming"
          /\ ret' = ret
          /\ exc' = exc
       \/ /\ Deliver("OSError")
          /\ fs' = fs
    /\ UNCHANGED <<op, total, attempts, history, payloads, loopIdx, downloaded_count>>
    /\ UNCHANGED <<fixtureVars, uiVars, extVars>>

\* download_file: f.write(chunk)
write(content, chunk) == Append(content, chunk)

\* download_file: one turn of the loop over response.iter_content
StreamChunk ==
    /\ httpPc = "streaming"
    /\ op.read < op.nchunks
    /\ \/ /\ fs' = [fs EXCEPT ![op.path] = write(@, Payload(op.nchunks)[op.read + 1])]
          /\ op' = [op EXCEPT !.read = @ + 1]
          /\ httpPc' = "streaming"
          /\ ret' = ret
          /\ exc' = exc
       \/ \* the stream breaks before the next chunk arrives
          /\ Deliver("ConnectionError")
          /\ UNCHANGED <<fs, op>>
       \/ \* the chunk arrives, writing it fails
          /\ Deliver("OSError")
          /\ UNCHANGED <<fs, op>>
    /\ UNCHANGED <<total, attempts, history, payloads, loopIdx, downloaded_count>>
    /\ UNCHANGED <<fixtureVars, uiVars, extVars>>

\* download_file: the iterator is exhausted, the file is closed, return True
StreamEnd ==
    /\ httpPc = "streaming"
    /\ op.read = op.nchunks
    /\ ret' = BoolResult(TRUE)
    /\ httpPc' = "returned"
    /\ UNCHANGED <<op, total, attempts, history, exc, payloads, fs, loopIdx, downloaded_count>>
    /\ UNCHANGED <<fixtureVars, uiVars, extVars>>

\* the caller takes the result; the download loop counts a true result
Resume ==
    /\ httpPc = "returned"
    /\ httpPc' = "idle"
    /\ IF op.kind = "download"
       THEN /\ loopIdx' = loopIdx + 1
            /\ downloaded_count' = IF ret.kind = "bool" /\ ret.success
                                   THEN downloaded_count + 1 ELSE downloaded_count
       ELSE UNCHANGED <<loopIdx, downloaded_count>>
    /\ op' = NoOp
    /\ ret' = NoResult
    /\ exc' = "none"
    /\ history' = <<>>
    /\ attempts' = 0
    /\ total' = MAX_RETRIES
    /\ UNCHANGED <<payloads, fs>>
    /\ UNCHANGED <<fixtureVars, uiVars, extVars>>

\* mutant: the client is closed while the tests still hold it
\* (close() before the yield, or a with-block around a single call)
Teardown_while_yielded ==
    /\ httpPc = "idle"
    /\ fixturePhase = "yielded"
    /\ closes' = closes + 1
    /\ fixturePhase' = fixturePhase
    /\ UNCHANGED <<httpPc, op, total, attempts, history, exc, ret, payloads, fs, loopIdx,
                   downloaded_count>>
    /\ UNCHANGED <<uiVars, extVars>>

\* api_client fixture, after the yield: the tests of the session are over,
\* client.close() closes the requests session
Teardown ==
    /\ httpPc = "idle"
    /\ fixturePhase = "yielded"
    /\ closes' = closes + 1
    /\ fixturePhase' = "torn_down"
    /\ UNCHANGED <<httpPc, op, total, attempts, history, exc, ret, payloads, fs, loopIdx,
                   downloaded_count>>
    /\ UNCHANGED <<uiVars, extVars>>

HttpInit ==
    /\ httpPc = "idle"
    /\ op = NoOp
    /\ total = MAX_RETRIES
    /\ attempts = 0
    /\ history = <<>>
    /\ exc = "none"
    /\ ret = NoResult
    /\ payloads = [p \in Paths |-> 0]
    /\ fs \in [Paths -> {Absent, OldFile}]
    /\ loopIdx = 1
    /\ downloaded_count = 0
    /\ fixturePhase = "yielded"
    /\ closes = 0

\* the generic request operations of the client
RequestNext ==
    \/ StartRequest
    \/ AttemptResponse
    \/ AttemptError
    \/ Resume
    \/ Teardown

\* the download loop of test_download_high_res_images
DownloadNext ==
    \/ StartDownload
    \/ AttemptResponse
    \/ AttemptError
    \/ OpenFile
    \/ StreamChunk
    \/ StreamEnd
    \/ Resume
    \/ Teardown

HttpNext == RequestNext \/ DownloadNext

-----------------------------------------------------------------------------
(* Search-box resolver: pages/home_page.py, core/base_page.py *)

\* the fallback chain of _get_active_search_box, in priority order:
\* 1 = SEARCH_INPUT_SELECTOR, 2 = SEARCH_INPUT_BY_NAME, 3 = placeholder pattern
NumCandidates == 3
Candidates == 1..NumCandidates

\* what locator.wait_for(state="visible", timeout=2000) does for a candidate
WaitOutcomes == {"visible", "timeout", "error"}

\* mutant: only the timeout of the wait is taken for "not visible"
is_visible_slow_unless_timeout(outcome) == outcome # "timeout"

\* BasePage.is_visible_slow
is_visible_slow(outcome) == outcome = "visible"

NoUiResult == [kind |-> "none", handle |-> 0, exc |-> "none"]

UiInit ==
    /\ uiPc = "idle"
    /\ page = [c \in Candidates |-> "timeout"]
    /\ evaluated = <<>>
    /\ shots = 0
    /\ uiLog = <<>>
    /\ uiRet = NoUiResult

\* a call of _get_active_search_box on some page
StartResolve ==
    /\ uiPc = "idle"
    /\ page' \in [Candidates -> WaitOutcomes]
    /\ evaluated' = <<>>
    /\ shots' = 0
    /\ uiLog' = <<>>
    /\ uiRet' = NoUiResult
    /\ uiPc' = "wait"
    /\ UNCHANGED <<httpVars, extVars>>

\* mutant: the chain waits for every candidate and returns the first visible
\* one afterwards
EvaluateCandidate_all ==
    /\ uiPc = "wait"
    /\ LET c == Len(evaluated) + 1
           found == uiRet.kind = "handle" \/ is_visible_slow(page[c]) IN
         /\ evaluated' = Append(evaluated, c)
         /\ uiRet' = IF uiRet.kind # "handle" /\ is_visible_slow(page[c])
                     THEN [kind |-> "handle", handle |-> c, exc |-> "none"]
                     ELSE uiRet
         /\ uiLog' = Append(uiLog, "wait")
         /\ uiPc' = IF c < NumCandidates THEN "wait"
                    ELSE IF found THEN "returned" ELSE "failing"
    /\ UNCHANGED <<page, shots>>
    /\ UNCHANGED <<httpVars, extVars>>

\* one "if self.is_visible_slow(box, timeout=2000): return box" of the chain
EvaluateCandidate ==
    /\ uiPc = "wait"
    /\ LET c == Len(evaluated) + 1 IN
         /\ evaluated' = Append(evaluated, c)
         /\ IF is_visible_slow(page[c])
            THEN /\ uiRet' = [kind |-> "handle", handle |-> c, exc |-> "none"]
                 /\ uiLog' = IF c = 1 THEN Append(uiLog, "wait")
                             ELSE uiLog \o <<"wait", "warning">>
                 /\ uiPc' = "returned"
            ELSE /\ uiRet' = uiRet
                 /\ uiLog' = Append(uiLog, "wait")
                 /\ uiPc' = IF c = NumCandidates THEN "failing" ELSE "wait"
    /\ UNCHANGED <<page, shots>>
    /\ UNCHANGED <<httpVars, extVars>>

\* mutant: the resolver raises without calling take_screenshot
TakeScreenshot_skipped ==
    /\ uiPc = "failing"
    /\ uiPc' = "raising"
    /\ UNCHANGED <<page, evaluated, shots, uiLog, uiRet>>
    /\ UNCHANGED <<httpVars, extVars>>

\* BasePage.take_screenshot("search_box_missing"): whatever page.screenshot
\* does, the call returns normally
TakeScreenshot ==
    /\ uiPc = "failing"
    /\ shots' = shots + 1
    /\ \E saved \in BOOLEAN :
         uiLog' = Append(uiLog, IF saved THEN "screenshot_saved" ELSE "screenshot_failed")
    /\ uiPc' = "raising"
    /\ UNCHANGED <<page, evaluated, uiRet>>
    /\ UNCHANGED <<httpVars, extVars>>

\* raise Exception("Search box not found with any strategy!")
RaiseNotFound ==
    /\ uiPc = "raising"
    /\ uiRet' = [kind |-> "raised", handle |-> 0, exc |-> "SearchBoxNotFound"]
    /\ uiLog' = Append(uiLog, "raise")
    /\ uiPc' = "returned"
    /\ UNCHANGED <<page, evaluated, shots>>
    /\ UNCHANGED <<httpVars, extVars>>

UiResume ==
    /\ uiPc = "returned"
    /\ uiPc' = "idle"
    /\ UNCHANGED <<page, evaluated, shots, uiLog, uiRet>>
    /\ UNCHANGED <<httpVars, extVars>>

UiNext ==
    \/ StartResolve
    \/ EvaluateCandidate
    \/ TakeScreenshot
    \/ RaiseNotFound
    \/ UiResume

-----------------------------------------------------------------------------
(* Specifications *)

(***************************************************************************)
(* BasePage wrappers: click, fill, get_text, is_visible_slow and           *)
(* take_screenshot, each called on a locator whose Playwright operation    *)
(* either succeeds or raises.                                              *)
(***************************************************************************)

\* the exceptions of playwright.sync_api
PlaywrightErrors == {"TimeoutError", "Error"}

\* class hierarchy: TimeoutError is an Error, every Error is an Exception
PlaywrightBases(e) ==
    CASE e = "TimeoutError" -> {"TimeoutError", "Error", "Exception"}
      [] e = "Error" -> {"Error", "Exception"}
      [] OTHER -> {e, "Exception"}

\* what a Playwright operation of a wrapper does
OpOutcomes == {"ok"} \cup PlaywrightErrors

\* what building the path and page.screenshot do: the screenshot is saved,
\* Playwright raises, or settings.get_current_timestamp is missing on the
\* imported name
ScreenshotOutcomes == {"ok", "Error", "TimeoutError", "AttributeError"}

WrapperOps == {"click", "fill", "get_text", "is_visible_slow", "take_screenshot"}

\* the description argument of click and fill
Descriptions == {"element", "Login Button"}

\* what locator.text_content() returns: None or a string
TextContents == {"None", "", " pin "}

\* (text or "").strip()
strip_or_empty(text) ==
    CASE text = "None" -> ""
      [] text = " pin " -> "pin"
      [] OTHER -> text

\* f"fail_click_{description}"
fail_click_name(description) == <<"fail_click_", description>>

WNormal == [kind |-> "normal", value |-> "None", exc |-> "none"]
WBool(b) == [kind |-> "bool", value |-> IF b THEN "True" ELSE "False", exc |-> "none"]
WText(t) == [kind |-> "text", value |-> t, exc |-> "none"]
WRaised(e) == [kind |-> "raised", value |-> "None", exc |-> e]
NoWrapResult == [kind |-> "none", value |-> "None", exc |-> "none"]

NoWrapOp == [name |-> "none", description |-> "element", outcome |-> "ok"]

\* the Playwright exception a failed wait_for raises
WaitError(outcome) == IF outcome = "timeout" THEN "TimeoutError" ELSE "Error"

\* mutant: is_visible_slow catches the timeout only
wait_except_timeout_only(e) ==
    IF e = "TimeoutError" THEN WBool(FALSE) ELSE WRaised(e)

\* is_visible_slow, "except Exception: return False"
wait_except(e) ==
    IF "Exception" \in PlaywrightBases(e) THEN WBool(FALSE) ELSE WRaised(e)

\* mutant: take_screenshot without its try/except
screenshot_except_none(e) == WRaised(e)

\* take_screenshot, "except Exception as e: logger.warning(...)"
screenshot_except(e) ==
    IF "Exception" \in PlaywrightBases(e) THEN WNormal ELSE WRaised(e)

\* BasePage.take_screenshot as a call: the result the caller sees
take_screenshot_call(s) == IF s = "ok" THEN WNormal ELSE screenshot_except(s)

\* mutant: click logs and captures but does not re-raise
click_swallow(e) == WNormal

\* click, "raise e": the exception the click produced
click_reraise(e) == WRaised(e)

WrapInit ==
    /\ wPc = "idle"
    /\ wOp = NoWrapOp
    /\ wShots = <<>>
    /\ wLog = <<>>
    /\ wRet = NoWrapResult

\* a page object calls one of the wrappers
WrapperCall ==
    /\ wPc = "idle"
    /\ \E name \in WrapperOps, description \in Descriptions :
         \E outcome \in (IF name = "is_visible_slow" THEN WaitOutcomes ELSE OpOutcomes) :
           wOp' = [name |-> name, description |-> description, outcome |-> outcome]
    /\ wShots' = <<>>
    /\ wLog' = <<>>
    /\ wRet' = NoWrapResult
    /\ wPc' = "called"
    /\ UNCHANGED <<httpVars, uiVars, cfgVars, searchVars, imgVars,
                   resVars, loginVars>>

\* BasePage.click up to the screenshot
ClickBody ==
    /\ wPc = "called"
    /\ wOp.name = "click"
    /\ IF wOp.outcome = "ok"
       THEN /\ wLog' = Append(wLog, "info")
            /\ wRet' = WNormal
            /\ wPc' = "returned"
       ELSE /\ wLog' = wLog \o <<"info", "error">>
            /\ wRet' = wRet
            /\ wPc' = "capturing"
    /\ UNCHANGED <<wOp, wShots>>
    /\ UNCHANGED <<httpVars, uiVars, cfgVars, searchVars, imgVars,
                   resVars, loginVars>>

\* self.take_screenshot(f"fail_click_{description}") in the except block
ClickCapture ==
    /\ wPc = "capturing"
    /\ \E s \in ScreenshotOutcomes :
         /\ wShots' = Append(wShots, [name |-> fail_click_name(wOp.description),
                                      outcome |-> s])
         /\ wLog' = Append(wLog, IF s = "ok" THEN "info" ELSE "warning")
         /\ IF take_screenshot_call(s).kind = "raised"
            THEN /\ wRet' = take_screenshot_call(s)
                 /\ wPc' = "returned"
            ELSE /\ wRet' = wRet
                 /\ wPc' = "reraising"
    /\ UNCHANGED wOp
    /\ UNCHANGED <<httpVars, uiVars, cfgVars, searchVars, imgVars,
                   resVars, loginVars>>

\* "raise e"
ClickReraise ==
    /\ wPc = "reraising"
    /\ wRet' = click_reraise(wOp.outcome)
    /\ wPc' = "returned"
    /\ UNCHANGED <<wOp, wShots, wLog>>
    /\ UNCHANGED <<httpVars, uiVars, cfgVars, searchVars, imgVars,
                   resVars, loginVars>>

\* mutant: fill with the diagnostic capture of click
FillBody_with_capture ==
    /\ wPc = "called"
    /\ wOp.name = "fill"
    /\ IF wOp.outcome = "ok"
       THEN /\ wLog' = Append(wLog, "info")
            /\ wRet' = WNormal
            /\ wPc' = "returned"
       ELSE /\ wLog' = wLog \o <<"info", "error">>
            /\ wRet' = wRet
            /\ wPc' = "capturing"
    /\ UNCHANGED <<wOp, wShots>>
    /\ UNCHANGED <<httpVars, uiVars, cfgVars, searchVars, imgVars,
                   resVars, loginVars>>

\* BasePage.fill: log, then locator.fill with nothing around it
FillBody ==
    /\ wPc = "called"
    /\ wOp.name = "fill"
    /\ wLog' = Append(wLog, "info")
    /\ wRet' = IF wOp.outcome = "ok" THEN WNormal ELSE WRaised(wOp.outcome)
    /\ wPc' = "returned"
    /\ UNCHANGED <<wOp, wShots>>
    /\ UNCHANGED <<httpVars, uiVars, cfgVars, searchVars, imgVars,
                   resVars, loginVars>>

\* BasePage.get_text: locator.text_content() first, then the debug log
GetTextBody ==
    /\ wPc = "called"
    /\ wOp.name = "get_text"
    /\ IF wOp.outcome = "ok"
       THEN /\ wLog' = Append(wLog, "debug")
            /\ \E text \in TextContents : wRet' = WText(strip_or_empty(text))
       ELSE /\ wLog' = wLog
            /\ wRet' = WRaised(wOp.outcome)
    /\ wPc' = "returned"
    /\ UNCHANGED <<wOp, wShots>>
    /\ UNCHANGED <<httpVars, uiVars, cfgVars, searchVars, imgVars,
                   resVars, loginVars>>

\* BasePage.is_visible_slow as a call
IsVisibleSlowBody ==
    /\ wPc = "called"
    /\ wOp.name = "is_visible_slow"
    /\ wRet' = IF wOp.outcome = "visible" THEN WBool(TRUE)
               ELSE wait_except(WaitError(wOp.outcome))
    /\ wPc' = "returned"
    /\ UNCHANGED <<wOp, wShots, wLog>>
    /\ UNCHANGED <<httpVars, uiVars, cfgVars, searchVars, imgVars,
                   resVars, loginVars>>

\* BasePage.take_screenshot called directly with some name
TakeScreenshotBody ==
    /\ wPc = "called"
    /\ wOp.name = "take_screenshot"
    /\ \E s \in ScreenshotOutcomes :
         /\ wShots' = Append(wShots, [name |-> <<"", wOp.description>>, outcome |-> s])
         /\ wLog' = Append(wLog, IF s = "ok" THEN "info" ELSE "warning")
         /\ wRet' = take_screenshot_call(s)
    /\ wPc' = "returned"
    /\ UNCHANGED wOp
    /\ UNCHANGED <<httpVars, uiVars, cfgVars, searchVars, imgVars,
                   resVars, loginVars>>

WrapperResume ==
    /\ wPc = "returned"
    /\ wPc' = "idle"
    /\ UNCHANGED <<wOp, wShots, wLog, wRet>>
    /\ UNCHANGED <<httpVars, uiVars, cfgVars, searchVars, imgVars,
                   resVars, loginVars>>

WrapperNext ==
    \/ WrapperCall
    \/ ClickBody
    \/ ClickCapture
    \/ ClickReraise
    \/ FillBody
    \/ GetTextBody
    \/ IsVisibleSlowBody
    \/ TakeScreenshotBody
    \/ WrapperResume

(***************************************************************************)
(* config/settings.py : the randomized budgets of TimeoutConfig.  The      *)
(* defaults are class attributes: random.randint runs when the class body  *)
(* is executed, once, at the import of the module; TimeoutConfig() copies  *)
(* them into the instance kept in settings.timeouts.                       *)
(***************************************************************************)

RandomizedTimeouts == {"TYPING_TIMEOUT", "SHORT13_TIMEOUT", "SHORT24_TIMEOUT"}

\* the arguments of random.randint for each budget
TimeoutRange ==
    [TYPING_TIMEOUT |-> <<300, 500>>,
     SHORT13_TIMEOUT |-> <<1000, 3000>>,
     SHORT24_TIMEOUT |-> <<2000, 4000>>]

\* random.randint(lo, hi): an integer of lo..hi
randint(lo, hi) == {lo + k * ((hi - lo) \div RandSteps) : k \in 0..RandSteps}

\* how a page object uses the value it read: page.wait_for_timeout(value) or
\* locator.type(text, delay=value)
TimeoutUses == {"wait", "type"}

\* mutant: the budget is drawn again at every read
read_timeout_rerandomized(name) == randint(TimeoutRange[name][1], TimeoutRange[name][2])

\* settings.timeouts.<name>: the values a read can give
read_timeout(name) == {timeouts[name]}

CfgInit ==
    /\ cfgPc = "unloaded"
    /\ timeouts = [n \in RandomizedTimeouts |-> 0]
    /\ reads = [n \in RandomizedTimeouts |-> <<>>]
    /\ delays = <<>>

\* the first import of config.settings: the class body of TimeoutConfig draws
\* the three defaults, settings = Settings() builds the instance from them
ImportSettings ==
    /\ cfgPc = "unloaded"
    /\ \E ty \in randint(TimeoutRange["TYPING_TIMEOUT"][1], TimeoutRange["TYPING_TIMEOUT"][2]),
          s13 \in randint(TimeoutRange["SHORT13_TIMEOUT"][1], TimeoutRange["SHORT13_TIMEOUT"][2]),
          s24 \in randint(TimeoutRange["SHORT24_TIMEOUT"][1], TimeoutRange["SHORT24_TIMEOUT"][2]) :
         timeouts' = [n \in RandomizedTimeouts |->
                        CASE n = "TYPING_TIMEOUT" -> ty
                          [] n = "SHORT13_TIMEOUT" -> s13
                          [] OTHER -> s24]
    /\ cfgPc' = "loaded"
    /\ UNCHANGED <<reads, delays>>
    /\ UNCHANGED <<httpVars, uiVars, wrapVars, searchVars, imgVars,
                   resVars, loginVars>>

\* a page object reads a budget and passes it to wait_for_timeout or, for
\* TYPING_TIMEOUT, as the per-keystroke delay of locator.type
ReadTimeout ==
    /\ cfgPc = "loaded"
    /\ \E name \in RandomizedTimeouts, use \in TimeoutUses :
         /\ use = "type" => name = "TYPING_TIMEOUT"
         /\ Len(reads[name]) < MaxReads
         /\ \E v \in read_timeout(name) :
              /\ reads' = [reads EXCEPT ![name] = Append(@, v)]
              /\ delays' = IF use = "type" THEN Append(delays, v) ELSE delays
    /\ UNCHANGED <<cfgPc, timeouts>>
    /\ UNCHANGED <<httpVars, uiVars, wrapVars, searchVars, imgVars,
                   resVars, loginVars>>

ConfigNext ==
    \/ ImportSettings
    \/ ReadTimeout

(***************************************************************************)
(* pages/home_page.py : HomePage.search_for.  It resolves the search box   *)
(* with _get_active_search_box, then works on the handle with Playwright's *)
(* own click, type and press, none of them wrapped.                        *)
(***************************************************************************)

NoSearchResult == [kind |-> "none", exc |-> "none"]

\* the operations search_for makes on the handle h when nothing fails
SearchPlan(h, delay) ==
    <<[ev |-> "click", handle |-> h, key |-> 0, delay |-> 0]>>
    \o [i \in 1..KeywordLen |-> [ev |-> "type", handle |-> h, key |-> i, delay |-> delay]]
    \o <<[ev |-> "press_Enter", handle |-> h, key |-> 0, delay |-> 0]>>

\* a Playwright operation on the handle: recorded, then it succeeded (the
\* call goes on at position next) or raised (search_for lets it through)
SearchOp(event, next) ==
    /\ searchEvents' = Append(searchEvents, event)
    /\ \E outcome \in OpOutcomes :
         IF outcome = "ok"
         THEN searchPc' = next /\ searchRet' = searchRet
         ELSE searchPc' = "returned" /\ searchRet' = [kind |-> "raised", exc |-> outcome]

SearchInit ==
    /\ searchPc = "idle"
    /\ searchDelay = 0
    /\ searchEvents = <<>>
    /\ searchRet = NoSearchResult

\* search_for(keyword) up to the call of _get_active_search_box
StartSearch ==
    /\ searchPc = "idle"
    /\ cfgPc = "loaded"
    /\ uiPc = "idle"
    /\ page' \in [Candidates -> WaitOutcomes]
    /\ evaluated' = <<>>
    /\ shots' = 0
    /\ uiLog' = <<>>
    /\ uiRet' = NoUiResult
    /\ uiPc' = "wait"
    /\ searchPc' = "resolving"
    /\ searchDelay' = 0
    /\ searchEvents' = <<>>
    /\ searchRet' = NoSearchResult
    /\ UNCHANGED <<httpVars, wrapVars, cfgVars, imgVars,
                   resVars, loginVars>>

\* search_box = self._get_active_search_box(): the handle, or the resolver's
\* exception going through search_for
SearchResolved ==
    /\ searchPc = "resolving"
    /\ uiPc = "returned"
    /\ uiPc' = "idle"
    /\ IF uiRet.kind = "handle"
       THEN searchPc' = "clicking" /\ searchRet' = searchRet
       ELSE searchPc' = "returned" /\ searchRet' = [kind |-> "raised", exc |-> uiRet.exc]
    /\ UNCHANGED <<page, evaluated, shots, uiLog, uiRet, searchDelay, searchEvents>>
    /\ UNCHANGED <<httpVars, wrapVars, cfgVars, imgVars,
                   resVars, loginVars>>

\* mutant: Enter is pressed right after the click
SearchClick_then_enter ==
    /\ searchPc = "clicking"
    /\ SearchOp([ev |-> "click", handle |-> uiRet.handle, key |-> 0, delay |-> 0], "pressing")
    /\ UNCHANGED searchDelay
    /\ UNCHANGED <<httpVars, uiVars, wrapVars, cfgVars, imgVars,
                   resVars, loginVars>>

\* search_box.click()
SearchClick ==
    /\ searchPc = "clicking"
    /\ SearchOp([ev |-> "click", handle |-> uiRet.handle, key |-> 0, delay |-> 0], "calling_type")
    /\ UNCHANGED searchDelay
    /\ UNCHANGED <<httpVars, uiVars, wrapVars, cfgVars, imgVars,
                   resVars, loginVars>>

\* wait_for_timeout(TYPING_TIMEOUT), then the call
\* search_box.type(keyword, delay=settings.timeouts.TYPING_TIMEOUT)
SearchTypeCall ==
    /\ searchPc = "calling_type"
    /\ searchDelay' \in read_timeout("TYPING_TIMEOUT")
    /\ searchPc' = "typing"
    /\ UNCHANGED <<searchEvents, searchRet>>
    /\ UNCHANGED <<httpVars, uiVars, wrapVars, cfgVars, imgVars,
                   resVars, loginVars>>

\* Locator.type: the next character of the keyword, delay ms after the last
SearchKeystroke ==
    /\ searchPc = "typing"
    /\ LET typed == Cardinality({i \in 1..Len(searchEvents) : searchEvents[i].ev = "type"}) IN
         SearchOp([ev |-> "type", handle |-> uiRet.handle, key |-> typed + 1,
                   delay |-> searchDelay],
                  IF typed + 1 = KeywordLen THEN "pressing" ELSE "typing")
    /\ UNCHANGED searchDelay
    /\ UNCHANGED <<httpVars, uiVars, wrapVars, cfgVars, imgVars,
                   resVars, loginVars>>

\* wait_for_timeout(SHORT13_TIMEOUT), then search_box.press("Enter")
SearchPressEnter ==
    /\ searchPc = "pressing"
    /\ searchEvents' = Append(searchEvents,
                              [ev |-> "press_Enter", handle |-> uiRet.handle, key |-> 0, delay |-> 0])
    /\ \E outcome \in OpOutcomes :
         searchRet' = IF outcome = "ok" THEN [kind |-> "normal", exc |-> "none"]
                      ELSE [kind |-> "raised", exc |-> outcome]
    /\ searchPc' = "returned"
    /\ UNCHANGED searchDelay
    /\ UNCHANGED <<httpVars, uiVars, wrapVars, cfgVars, imgVars,
                   resVars, loginVars>>

SearchResume ==
    /\ searchPc = "returned"
    /\ searchPc' = "idle"
    /\ UNCHANGED <<searchDelay, searchEvents, searchRet>>
    /\ UNCHANGED <<httpVars, uiVars, wrapVars, cfgVars, imgVars,
                   resVars, loginVars>>

SearchNext ==
    \/ ImportSettings
    \/ StartSearch
    \/ EvaluateCandidate
    \/ TakeScreenshot
    \/ RaiseNotFound
    \/ SearchResolved
    \/ SearchClick
    \/ SearchTypeCall
    \/ SearchKeystroke
    \/ SearchPressEnter
    \/ SearchResume

(***************************************************************************)
(* pages/search_result_page.py : SearchResultPage.get_image_urls.  A       *)
(* string is the sequence of its characters; None is the attribute that    *)
(* is not there.                                                           *)
(***************************************************************************)

None == <<"<None>">>

\* Python truth value of an attribute: neither None nor the empty string
Truthy(x) == x # None /\ x # <<>>

RECURSIVE split(_, _)
\* str.split(sep)
split(str, sep) ==
    IF \A i \in 1..Len(str) : str[i] # sep
    THEN <<str>>
    ELSE LET k == CHOOSE i \in 1..Len(str) :
                      str[i] = sep /\ \A j \in 1..(i - 1) : str[j] # sep
         IN  <<SubSeq(str, 1, k - 1)>> \o split(SubSeq(str, k + 1, Len(str)), sep)

RECURSIVE strip(_)
\* str.strip()
strip(str) ==
    IF str = <<>> THEN str
    ELSE IF str[1] = " " THEN strip(SubSeq(str, 2, Len(str)))
    ELSE IF str[Len(str)] = " " THEN strip(SubSeq(str, 1, Len(str) - 1))
    ELSE str

\* srcset.split(",")[-1].strip().split(" ")[0]; split never gives an empty
\* list, so the IndexError branch of the code is never taken
last_srcset_url(srcset) ==
    LET entries == split(srcset, ",")
        words == split(strip(entries[Len(entries)]), " ")
    IN  words[1]

\* the body of the loop: the url taken for one image ("" : none)
final_url(img) ==
    IF Truthy(img.srcset) THEN last_srcset_url(img.srcset)
    ELSE IF Truthy(img.src) THEN img.src
    ELSE <<>>

\* srcset attributes of an image: none, empty, blank, one candidate, one
\* candidate without descriptor, two candidates, two candidates and a
\* trailing comma
SrcsetSamples ==
    {None, <<>>, <<" ">>,
     <<"a", " ", "1">>,
     <<"a">>,
     <<"a", " ", "1", ",", " ", "b", " ", "2">>,
     <<"a", " ", "1", ",", " ", "b", " ", "2", ",">>}

\* src attributes: PIN_IMAGE_LOADED selects img[src*='pinimg.com'], so every
\* located image has one
SrcSamples == {<<"s">>, <<"t">>}

ImageSamples == [srcset : SrcsetSamples, src : SrcSamples]

RECURSIVE SeqsUpTo(_, _)
\* the sequences over S of length at most n
SeqsUpTo(S, n) ==
    IF n = 0 THEN {<<>>}
    ELSE LET shorter == SeqsUpTo(S, n - 1)
         IN  shorter \cup {Append(q, x) : q \in shorter, x \in S}

ImgInit ==
    /\ imgPc = "idle"
    /\ images = <<>>
    /\ limit = 1
    /\ imgIdx = 0
    /\ urls = <<>>

\* get_image_urls(limit) on some result page, up to the loop
StartExtract ==
    /\ imgPc = "idle"
    /\ images' \in SeqsUpTo(ImageSamples, MaxImages)
    /\ limit' \in 1..MaxImages
    /\ imgIdx' = 0
    /\ urls' = <<>>
    /\ imgPc' = "loop"
    /\ UNCHANGED <<httpVars, uiVars, wrapVars, cfgVars, searchVars,
                   resVars, loginVars>>

\* one iteration of "for i in range(count)", count = min(images.count(), limit)
ExtractImage ==
    /\ imgPc = "loop"
    /\ LET count == IF Len(images) < limit THEN Len(images) ELSE limit IN
         IF imgIdx < count
         THEN /\ imgIdx' = imgIdx + 1
              /\ urls' = IF final_url(images[imgIdx + 1]) # <<>>
                         THEN Append(urls, final_url(images[imgIdx + 1]))
                         ELSE urls
              /\ imgPc' = "loop"
         ELSE /\ imgPc' = "returned"
              /\ UNCHANGED <<imgIdx, urls>>
    /\ UNCHANGED <<images, limit>>
    /\ UNCHANGED <<httpVars, uiVars, wrapVars, cfgVars, searchVars,
                   resVars, loginVars>>

\* the caller has the list; the page and the call's locals are gone
ExtractResume ==
    /\ imgPc = "returned"
    /\ imgPc' = "idle"
    /\ images' = <<>>
    /\ limit' = 1
    /\ imgIdx' = 0
    /\ urls' = <<>>
    /\ UNCHANGED <<httpVars, uiVars, wrapVars, cfgVars, searchVars,
                   resVars, loginVars>>

ImagesNext ==
    \/ StartExtract
    \/ ExtractImage
    \/ ExtractResume

(***************************************************************************)
(* pages/search_result_page.py : SearchResultPage.wait_for_results.  The   *)
(* page loads and drops pins on its own while the call waits and counts.   *)
(***************************************************************************)

NoResResult == [kind |-> "none", count |-> 0, exc |-> "none"]

\* mutant: wait_for_results without the try/except around the wait
results_wait_except_none(e) == FALSE

\* wait_for_results, "except Exception: logger.warning(...)": is e caught
results_wait_except(e) == "Exception" \in PlaywrightBases(e)

ResInit ==
    /\ resPc = "idle"
    /\ pinsOnPage = 0
    /\ minCount = 1
    /\ waitOutcome = "none"
    /\ removed = FALSE
    /\ resLog = <<>>
    /\ resRet = NoResResult

\* wait_for_results(min_count) on some result page, up to the wait
StartWait ==
    /\ resPc = "idle"
    /\ pinsOnPage' \in 0..MaxPins
    /\ minCount' \in 1..MaxPins
    /\ waitOutcome' = "none"
    /\ removed' = FALSE
    /\ resLog' = <<"info">>
    /\ resRet' = NoResResult
    /\ resPc' = "waiting"
    /\ UNCHANGED <<httpVars, uiVars, wrapVars, cfgVars, searchVars, imgVars, loginVars>>

\* the page: one more pin is attached
PinLoaded ==
    /\ resPc \in {"waiting", "counting"}
    /\ pinsOnPage < MaxPins
    /\ pinsOnPage' = pinsOnPage + 1
    /\ UNCHANGED <<resPc, minCount, waitOutcome, removed, resLog, resRet>>
    /\ UNCHANGED <<httpVars, uiVars, wrapVars, cfgVars, searchVars, imgVars, loginVars>>

\* the page: a pin is detached (the grid is virtualized)
PinRemoved ==
    /\ resPc \in {"waiting", "counting"}
    /\ pinsOnPage > 0
    /\ pinsOnPage' = pinsOnPage - 1
    /\ removed' = (removed \/ resPc = "counting")
    /\ UNCHANGED <<resPc, minCount, waitOutcome, resLog, resRet>>
    /\ UNCHANGED <<httpVars, uiVars, wrapVars, cfgVars, searchVars, imgVars, loginVars>>

\* locator(PIN_ITEM).nth(min_count - 1).wait_for(state="visible"): it succeeds
\* only with that element on the page, or raises
WaitEnds ==
    /\ resPc = "waiting"
    /\ \E outcome \in OpOutcomes :
         /\ outcome = "ok" => pinsOnPage >= minCount
         /\ waitOutcome' = outcome
         /\ IF outcome = "ok"
            THEN resLog' = resLog /\ resPc' = "counting" /\ resRet' = resRet
            ELSE IF results_wait_except(outcome)
            THEN /\ resLog' = Append(resLog, "warning")
                 /\ resPc' = "counting"
                 /\ resRet' = resRet
            ELSE /\ resLog' = resLog
                 /\ resPc' = "returned"
                 /\ resRet' = [kind |-> "raised", count |-> 0, exc |-> outcome]
    /\ UNCHANGED <<pinsOnPage, minCount, removed>>
    /\ UNCHANGED <<httpVars, uiVars, wrapVars, cfgVars, searchVars, imgVars, loginVars>>

\* return self.get_loaded_pins_count(): locator(PIN_ITEM).count(), outside
\* any try
CountPins ==
    /\ resPc = "counting"
    /\ \E outcome \in {"ok", "Error"} :
         IF outcome = "ok"
         THEN /\ resRet' = [kind |-> "count", count |-> pinsOnPage, exc |-> "none"]
              /\ resLog' = Append(resLog, "debug")
         ELSE /\ resRet' = [kind |-> "raised", count |-> 0, exc |-> "count:Error"]
              /\ resLog' = resLog
    /\ resPc' = "returned"
    /\ UNCHANGED <<pinsOnPage, minCount, waitOutcome, removed>>
    /\ UNCHANGED <<httpVars, uiVars, wrapVars, cfgVars, searchVars, imgVars, loginVars>>

\* the caller has the count; the call's locals are gone
ResultsResume ==
    /\ resPc = "returned"
    /\ resPc' = "idle"
    /\ pinsOnPage' = 0
    /\ minCount' = 1
    /\ waitOutcome' = "none"
    /\ removed' = FALSE
    /\ resLog' = <<>>
    /\ resRet' = NoResResult
    /\ UNCHANGED <<httpVars, uiVars, wrapVars, cfgVars, searchVars, imgVars, loginVars>>

ResultsNext ==
    \/ StartWait
    \/ PinLoaded
    \/ PinRemoved
    \/ WaitEnds
    \/ CountPins
    \/ ResultsResume

(***************************************************************************)
(* pages/login_page.py : LoginPage.login with _dismiss_google_popup and    *)
(* wait_for_url_change.  A step is one Playwright call together with the   *)
(* wait_for_timeout that follows it.                                       *)
(***************************************************************************)

NoLoginResult == [kind |-> "none", exc |-> "none", origin |-> "none"]

\* email_input.click / type, password_input.click / type: Playwright's own
\* calls, in the order login makes them
InputSteps == <<"email_click", "email_type", "password_click", "password_type">>

\* the step after an input step
AfterInput(step) ==
    CASE step = "email_click" -> "email_type"
      [] step = "email_type" -> "password_click"
      [] step = "password_click" -> "password_type"
      [] OTHER -> "submit_click"

\* the clicks and typing of login, the submit click included
PrimaryActions == {InputSteps[i] : i \in 1..Len(InputSteps)} \cup {"submit_click"}

\* wait_for_url_change, "except Exception: logger.warning(...)": is e caught
url_wait_except(e) == "Exception" \in PlaywrightBases(e)

LoginInit ==
    /\ loginPc = "idle"
    /\ loginUrl = "/login"
    /\ loginLog = <<>>
    /\ loginShots = <<>>
    /\ loginRet = NoLoginResult

\* login(email, password) on the login page LoginPage.navigate opened
StartLogin ==
    /\ loginPc = "idle"
    /\ loginUrl' = "/login"
    /\ loginLog' = <<>>
    /\ loginShots' = <<>>
    /\ loginRet' = NoLoginResult
    /\ loginPc' = "popup_check"
    /\ UNCHANGED <<httpVars, uiVars, wrapVars, cfgVars, searchVars, imgVars, resVars>>

\* _dismiss_google_popup, the try block: is_visible, the close click and the
\* wait for the popup to go; any exception goes to the handler
PopupCheck ==
    /\ loginPc = "popup_check"
    /\ \E outcome \in OpOutcomes :
         IF outcome = "ok"
         THEN loginPc' = "email_click" /\ loginLog' = loginLog
         ELSE loginPc' = "popup_escape" /\ loginLog' = Append(loginLog, "debug")
    /\ UNCHANGED <<loginUrl, loginShots, loginRet>>
    /\ UNCHANGED <<httpVars, uiVars, wrapVars, cfgVars, searchVars, imgVars, resVars>>

\* _dismiss_google_popup, the except block: page.keyboard.press("Escape") and
\* wait_for_timeout(500), with no try around them
PopupEscape ==
    /\ loginPc = "popup_escape"
    /\ \E outcome \in {"ok", "Error"} :
         IF outcome = "ok"
         THEN loginPc' = "email_click" /\ loginRet' = loginRet
         ELSE /\ loginPc' = "returned"
              /\ loginRet' = [kind |-> "raised", exc |-> outcome, origin |-> "popup_escape"]
    /\ UNCHANGED <<loginUrl, loginLog, loginShots>>
    /\ UNCHANGED <<httpVars, uiVars, wrapVars, cfgVars, searchVars, imgVars, resVars>>

\* one of email_input.click(), email_input.type(...), password_input.click(),
\* password_input.type(...): an exception leaves login
LoginInput ==
    /\ loginPc \in {InputSteps[i] : i \in 1..Len(InputSteps)}
    /\ loginLog' = IF loginPc \in {"email_click", "password_click"}
                   THEN Append(loginLog, "info") ELSE loginLog
    /\ \E outcome \in OpOutcomes :
         IF outcome = "ok"
         THEN loginPc' = AfterInput(loginPc) /\ loginRet' = loginRet
         ELSE /\ loginPc' = "returned"
              /\ loginRet' = [kind |-> "raised", exc |-> outcome, origin |-> loginPc]
    /\ UNCHANGED <<loginUrl, loginShots>>
    /\ UNCHANGED <<httpVars, uiVars, wrapVars, cfgVars, searchVars, imgVars, resVars>>

\* self.click(SUBMIT_BTN, "Login Button") up to the screenshot
SubmitClick ==
    /\ loginPc = "submit_click"
    /\ \E outcome \in OpOutcomes :
         IF outcome = "ok"
         THEN /\ loginLog' = Append(loginLog, "info")
              /\ loginRet' = loginRet
              /\ loginPc' = "url_wait"
         ELSE /\ loginLog' = loginLog \o <<"info", "error">>
              /\ loginRet' = [kind |-> "pending", exc |-> outcome, origin |-> "submit_click"]
              /\ loginPc' = "submit_capture"
    /\ UNCHANGED <<loginUrl, loginShots>>
    /\ UNCHANGED <<httpVars, uiVars, wrapVars, cfgVars, searchVars, imgVars, resVars>>

\* BasePage.click's take_screenshot("fail_click_Login Button")
SubmitCapture ==
    /\ loginPc = "submit_capture"
    /\ \E s \in ScreenshotOutcomes :
         /\ loginShots' = Append(loginShots, [name |-> fail_click_name("Login Button"),
                                              outcome |-> s])
         /\ loginLog' = Append(loginLog, IF s = "ok" THEN "info" ELSE "warning")
         /\ IF take_screenshot_call(s).kind = "raised"
            THEN /\ loginRet' = [kind |-> "raised", exc |-> s, origin |-> "submit_capture"]
                 /\ loginPc' = "returned"
            ELSE /\ loginRet' = loginRet
                 /\ loginPc' = "submit_reraise"
    /\ UNCHANGED loginUrl
    /\ UNCHANGED <<httpVars, uiVars, wrapVars, cfgVars, searchVars, imgVars, resVars>>

\* BasePage.click's "raise e", not caught by login
SubmitReraise ==
    /\ loginPc = "submit_reraise"
    /\ loginRet' = [kind |-> click_reraise(loginRet.exc).kind,
                    exc |-> click_reraise(loginRet.exc).exc,
                    origin |-> "submit_click"]
    /\ loginPc' = "returned"
    /\ UNCHANGED <<loginUrl, loginLog, loginShots>>
    /\ UNCHANGED <<httpVars, uiVars, wrapVars, cfgVars, searchVars, imgVars, resVars>>

\* wait_for_url_change: page.wait_for_url(no "/login" in the url, 15 s); the
\* page leaves the login URL, or the wait raises and the page is where it was
UrlWait ==
    /\ loginPc = "url_wait"
    /\ \E outcome \in OpOutcomes :
         IF outcome = "ok"
         THEN /\ loginUrl' = "/"
              /\ loginLog' = Append(loginLog, "info")
              /\ loginPc' = "settle_wait"
              /\ loginRet' = loginRet
         ELSE /\ loginUrl' = loginUrl
              /\ loginPc' = "returned"
              /\ IF url_wait_except(outcome)
                 THEN /\ loginLog' = Append(loginLog, "warning")
                      /\ loginRet' = [kind |-> "normal", exc |-> "none", origin |-> "none"]
                 ELSE /\ loginLog' = loginLog
                      /\ loginRet' = [kind |-> "raised", exc |-> outcome, origin |-> "url_wait"]
    /\ UNCHANGED loginShots
    /\ UNCHANGED <<httpVars, uiVars, wrapVars, cfgVars, searchVars, imgVars, resVars>>

\* wait_for_url_change: wait_for_timeout(SHORT24_TIMEOUT) after the redirect,
\* still inside the try
SettleWait ==
    /\ loginPc = "settle_wait"
    /\ \E outcome \in {"ok", "Error"} :
         IF outcome = "ok" \/ url_wait_except(outcome)
         THEN /\ loginLog' = IF outcome = "ok" THEN loginLog ELSE Append(loginLog, "warning")
              /\ loginRet' = [kind |-> "normal", exc |-> "none", origin |-> "none"]
         ELSE /\ loginLog' = loginLog
              /\ loginRet' = [kind |-> "raised", exc |-> outcome, origin |-> "url_wait"]
    /\ loginPc' = "returned"
    /\ UNCHANGED <<loginUrl, loginShots>>
    /\ UNCHANGED <<httpVars, uiVars, wrapVars, cfgVars, searchVars, imgVars, resVars>>

LoginResume ==
    /\ loginPc = "returned"
    /\ loginPc' = "idle"
    /\ UNCHANGED <<loginUrl, loginLog, loginShots, loginRet>>
    /\ UNCHANGED <<httpVars, uiVars, wrapVars, cfgVars, searchVars, imgVars, resVars>>

LoginNext ==
    \/ StartLogin
    \/ PopupCheck
    \/ PopupEscape
    \/ LoginInput
    \/ SubmitClick
    \/ SubmitCapture
    \/ SubmitReraise
    \/ UrlWait
    \/ SettleWait
    \/ LoginResume

Init ==
    /\ HttpInit /\ UiInit /\ WrapInit /\ CfgInit /\ SearchInit /\ ImgInit /\ ResInit
    /\ LoginInit

SpecHTTP == Init /\ [][HttpNext]_vars

SpecRequest == Init /\ [][RequestNext]_vars

SpecDownload == Init /\ [][DownloadNext]_vars

SpecUI == Init /\ [][UiNext]_vars

SpecWrapper == Init /\ [][WrapperNext]_vars

SpecConfig == Init /\ [][ConfigNext]_vars

SpecSearch == Init /\ [][SearchNext]_vars

SpecImages == Init /\ [][ImagesNext]_vars

SpecResults == Init /\ [][ResultsNext]_vars

SpecLogin == Init /\ [][LoginNext]_vars

Next == HttpNext \/ UiNext \/ WrapperNext \/ ConfigNext \/ SearchNext \/ ImagesNext
           \/ ResultsNext \/ LoginNext

Spec == Init /\ [][Next]_vars

-----------------------------------------------------------------------------
(* Helpers of the properties *)

Last(seq) == seq[Len(seq)]

\* every attempt of the call was answered with the status st
AllAnswered(st) == history # <<>> /\ \A i \in 1..Len(history) : history[i] = st

RequestReturned == httpPc = "returned" /\ op.kind = "request"

DownloadReturned == httpPc = "returned" /\ op.kind = "download"

\* some candidate becomes visible within its wait window
SomeVisible == \E c \in Candidates : page[c] = "visible"

\* the first candidate, in priority order, that becomes visible
FirstVisible ==
    CHOOSE c \in Candidates :
        page[c] = "visible" /\ \A d \in 1..(c - 1) : page[d] # "visible"

ScreenshotEvents == {"screenshot_saved", "screenshot_failed"}

-----------------------------------------------------------------------------
(* Properties of the resolver (SpecUI) *)

\* C1: whenever at least one candidate becomes visible within its wait
\* window, the resolver returns the handle of the first such candidate in
\* priority order, whatever the later candidates do.
C1_FirstVisibleWins ==
    (uiPc = "returned" /\ SomeVisible) =>
        /\ uiRet.kind = "handle"
        /\ uiRet.handle = FirstVisible

\* candidate 1 hidden, candidates 2 and 3 visible: candidate 2 was returned
C1_Witness ==
    /\ uiPc = "returned"
    /\ page[1] # "visible" /\ page[2] = "visible" /\ page[3] = "visible"
    /\ uiRet.kind = "handle" /\ uiRet.handle = 2

-----------------------------------------------------------------------------
(* Properties of the request operations (SpecRequest) *)

\* C3: every APIResponse the client constructs has success = true if and
\* only if 200 <= status_code < 300.
C3_SuccessIffIsOk ==
    ret.kind = "APIResponse" => (ret.success <=> is_ok(ret))

\* C4: whatever the method and whatever the dispatch ends in (a real status,
\* a timeout, a connection failure, another request error, exhausted retries,
\* an unparsable body), the request operation ends after a bounded number of
\* attempts by returning an APIResponse; no exception reaches the caller.
C4_RequestNeverRaises ==
    op.kind = "request" =>
        /\ ret.kind # "raised"
        /\ attempts <= MAX_RETRIES + 1
        /\ httpPc \in {"sending", "returned"}
        /\ httpPc = "returned" => ret.kind = "APIResponse"

\* a POST whose retries were used up on 503 answers came back as an APIResponse
C4_Witness ==
    /\ RequestReturned
    /\ op.method = "POST"
    /\ exc = "RetryError"
    /\ AllAnswered(503)
    /\ ret.kind = "APIResponse"

C6_Final503Returned ==
    (RequestReturned /\ AllAnswered(503)) =>
        /\ attempts <= MAX_RETRIES + 1
        /\ ret.kind = "APIResponse"
        /\ ret.status_code = 503
        /\ ret.error_message = "reason"

\* C7: a request whose final answer is a real 4xx/5xx response returns
\* success = false with the status the server sent; a 200 answer returns
\* status_code = 200, success = true and the body.
C7_RealStatusSurfaced ==
    (RequestReturned /\ history # <<>> /\ Last(history) # 0) =>
        /\ ret.kind = "APIResponse"
        /\ ret.status_code = Last(history)
        /\ Last(history) >= 400 => ~ret.success
        /\ Last(history) = 200 => (ret.success /\ ret.data # "None")

-----------------------------------------------------------------------------
(* Properties of download_file (SpecDownload) *)

C9_DownloadTrueMeansComplete ==
    /\ op.kind = "download" => ret.kind # "raised"
    /\ DownloadReturned =>
          /\ ret.kind = "bool"
          /\ exc # "none" => ~ret.success
          /\ ret.success =>
                /\ exc = "none"
                /\ op.read = op.nchunks
                /\ fs[op.path] = Payload(op.nchunks)
    /\ downloaded_count =
          Cardinality({p \in 1..(loopIdx - 1) : fs[p] = Payload(payloads[p])})

\* the first download broke off after one chunk of two, the second wrote both
\* of its chunks and returned true
C9_Witness ==
    /\ DownloadReturned
    /\ op.path = 2
    /\ payloads[1] = 2 /\ fs[1] = <<1>>
    /\ op.nchunks = 2 /\ fs[2] = <<1, 2>>
    /\ ret = BoolResult(TRUE)
    /\ downloaded_count = 0

\* C10: when the stream breaks after some but not all chunks were written,
\* download_file returns false and no partial file is left at the destination.
C10_NoPartialFileLeft ==
    (DownloadReturned /\ exc = "ConnectionError" /\ 0 < op.read /\ op.read < op.nchunks) =>
        /\ ret = BoolResult(FALSE)
        /\ fs[op.path] = Absent

\* a wrapper call that has returned to its caller
WrapperReturned(name) == wPc = "returned" /\ wOp.name = name

\* C11: a failed click makes one screenshot attempt named after the
\* description, logs the error before it, and re-raises the exception the
\* click produced, whatever the screenshot attempt does; a successful click
\* returns normally and takes no screenshot.
C11_ClickFailureReraised ==
    /\ wOp.name = "click" => Len(wShots) <= 1
    /\ (wOp.name = "click" /\ wOp.outcome = "ok") => wShots = <<>>
    /\ (WrapperReturned("click") /\ wOp.outcome = "ok") => wRet = WNormal
    /\ (WrapperReturned("click") /\ wOp.outcome # "ok") =>
          /\ Len(wShots) = 1
          /\ wShots[1].name = fail_click_name(wOp.description)
          /\ Len(wLog) = 3 /\ wLog[2] = "error"
          /\ wRet = WRaised(wOp.outcome)

\* the click on the login button timed out, the screenshot attempt failed with
\* another error, and the caller got the click's timeout
C11_Witness ==
    /\ WrapperReturned("click")
    /\ wOp.description = "Login Button"
    /\ wOp.outcome = "TimeoutError"
    /\ wShots = <<[name |-> fail_click_name("Login Button"), outcome |-> "Error"]>>
    /\ wLog = <<"info", "error", "warning">>
    /\ wRet = WRaised("TimeoutError")

\* C12: is_visible_slow returns a boolean and never raises: true when the
\* element became visible, false when the wait timed out or failed otherwise.
C12_VisibleSlowAlwaysBool ==
    /\ wOp.name = "is_visible_slow" => wRet.kind \in {"none", "bool"}
    /\ WrapperReturned("is_visible_slow") =>
          /\ wRet = WBool(wOp.outcome = "visible")
          /\ wRet = WBool(is_visible_slow(wOp.outcome))

\* the wait failed with an error that is no timeout and the caller got False
C12_Witness ==
    /\ WrapperReturned("is_visible_slow")
    /\ wOp.outcome = "error"
    /\ wRet = WBool(FALSE)

\* C13: take_screenshot returns normally whatever the screenshot operation
\* does and logs a warning when it failed, so an exception a wrapper raises is
\* always the one of its own Playwright operation.
C13_ScreenshotNeverEscalates ==
    /\ WrapperReturned("take_screenshot") =>
          /\ wRet = WNormal
          /\ Len(wShots) = 1
          /\ wLog = <<IF wShots[1].outcome = "ok" THEN "info" ELSE "warning">>
    /\ (wPc = "returned" /\ wRet.kind = "raised") =>
          /\ wOp.name # "take_screenshot"
          /\ wRet.exc = wOp.outcome

\* the timestamp helper was missing, the call only logged a warning
C13_Witness ==
    /\ WrapperReturned("take_screenshot")
    /\ wShots[1].outcome = "AttributeError"
    /\ wLog = <<"warning">>
    /\ wRet = WNormal

\* C19: fill and get_text never attempt a screenshot; their failure reaches
\* the caller unchanged and their success returns without any capture.
C19_FillGetTextNoCapture ==
    wOp.name \in {"fill", "get_text"} =>
        /\ wShots = <<>>
        /\ wPc \notin {"capturing", "reraising"}
        /\ "error" \notin {wLog[i] : i \in 1..Len(wLog)}
        /\ wPc = "returned" =>
              IF wOp.outcome = "ok"
              THEN wRet.kind = (IF wOp.name = "fill" THEN "normal" ELSE "text")
              ELSE wRet = WRaised(wOp.outcome)

\* a fill timed out: the caller got the timeout and no screenshot was tried
C19_Witness ==
    /\ WrapperReturned("fill")
    /\ wOp.outcome = "TimeoutError"
    /\ wRet = WRaised("TimeoutError")
    /\ wShots = <<>>

\* C15: the client of the api_client fixture is closed exactly once, at
\* teardown, with no call in progress; after the close no request or download
\* is dispatched on it.
C15_ClosedOnceAfterUse ==
    /\ closes <= 1
    /\ closes = 1 <=> fixturePhase = "torn_down"
    /\ fixturePhase = "torn_down" =>
          /\ httpPc = "idle"
          /\ op = NoOp
          /\ attempts = 0

\* both downloads of the loop were made, then the fixture closed the client
C15_Witness ==
    /\ fixturePhase = "torn_down"
    /\ closes = 1
    /\ loopIdx = NumUrls + 1
    /\ downloaded_count = NumUrls

\* C17: the resolver evaluates the candidates one after the other in priority
\* order, each at most once per call: a candidate is evaluated only after
\* every candidate before it ended without success, and once a candidate
\* succeeded it is the last one evaluated.
C17_SequentialShortCircuit ==
    /\ Len(evaluated) <= NumCandidates
    /\ \A i \in 1..Len(evaluated) : evaluated[i] = i
    /\ \A i \in 1..(Len(evaluated) - 1) : ~is_visible_slow(page[evaluated[i]])
    /\ uiPc \in {"wait", "failing", "raising"} =>
          \A i \in 1..Len(evaluated) : ~is_visible_slow(page[evaluated[i]])
    /\ uiRet.kind = "handle" =>
          /\ uiPc \in {"returned", "idle"}
          /\ evaluated # <<>>
          /\ Last(evaluated) = uiRet.handle
          /\ is_visible_slow(page[uiRet.handle])

\* candidate 1 timed out, candidate 2 was visible and returned; candidate 3,
\* visible too, was never evaluated
C17_Witness ==
    /\ uiPc = "returned"
    /\ page = <<"timeout", "visible", "visible">>
    /\ evaluated = <<1, 2>>
    /\ uiRet.handle = 2

\* C18: a request is sent again only after an attempt that failed in
\* transport or was answered with a status of RETRY_STATUS_CODES; a response
\* with a status outside the set ends the request after exactly one attempt,
\* for each of the five methods.
C18_RetryOnlyConfigured ==
    op.kind = "request" =>
        /\ op.method \in HTTPMethod
        /\ \A i \in 1..(Len(history) - 1) :
              history[i] = 0 \/ history[i] \in RETRY_STATUS_CODES
        /\ (history # <<>> /\ history[1] # 0 /\ history[1] \notin RETRY_STATUS_CODES) =>
              attempts = 1

\* C14: the randomized budgets are drawn once and stay constant: every read
\* of TYPING_TIMEOUT, SHORT13_TIMEOUT and SHORT24_TIMEOUT gives the value of
\* the first read, within [300,500], [1000,3000] and [2000,4000], and every
\* locator.type call of the run gets the same per-keystroke delay.
C14_BudgetsFixedPerProcess ==
    /\ \A n \in RandomizedTimeouts :
          \A i \in 1..Len(reads[n]) :
              /\ reads[n][i] = reads[n][1]
              /\ reads[n][i] = timeouts[n]
    /\ \A i \in 1..Len(reads["TYPING_TIMEOUT"]) :
          300 <= reads["TYPING_TIMEOUT"][i] /\ reads["TYPING_TIMEOUT"][i] <= 500
    /\ \A i \in 1..Len(reads["SHORT13_TIMEOUT"]) :
          1000 <= reads["SHORT13_TIMEOUT"][i] /\ reads["SHORT13_TIMEOUT"][i] <= 3000
    /\ \A i \in 1..Len(reads["SHORT24_TIMEOUT"]) :
          2000 <= reads["SHORT24_TIMEOUT"][i] /\ reads["SHORT24_TIMEOUT"][i] <= 4000
    /\ \A i \in 1..Len(delays) : delays[i] = delays[1] /\ delays[i] = timeouts["TYPING_TIMEOUT"]

\* two type calls got the delay 400, and both wait budgets were read twice
\* with the same value
C14_Witness ==
    /\ delays = <<400, 400>>
    /\ reads["TYPING_TIMEOUT"] = <<400, 400>>
    /\ Len(reads["SHORT13_TIMEOUT"]) = 2
    /\ Len(reads["SHORT24_TIMEOUT"]) = 2

\* the operations search_for has made are the first ones of its plan
PlanPrefix(events, plan) ==
    /\ Len(events) <= Len(plan)
    /\ \A i \in 1..Len(events) : events[i] = plan[i]

\* C16: in search_for, when the primary selector is not visible and the name
\* fallback is, the fallback handle is used and a warning is logged; the
\* operations on the handle are, in this order, the click, the keystrokes with
\* the delay TYPING_TIMEOUT and last the Enter keypress, so Enter is never
\* pressed before the typing has finished; nothing is clicked, typed or
\* pressed when the resolution fails.
C16_FallbackSearchOrder ==
    /\ (searchPc = "resolving" \/ uiRet.kind # "handle") => searchEvents = <<>>
    /\ (searchPc \notin {"idle", "resolving"} /\ ~SomeVisible) =>
          /\ searchPc = "returned"
          /\ searchRet = [kind |-> "raised", exc |-> "SearchBoxNotFound"]
    /\ (searchPc \notin {"idle", "resolving"} /\ uiRet.kind = "handle") =>
          /\ PlanPrefix(searchEvents, SearchPlan(uiRet.handle, timeouts["TYPING_TIMEOUT"]))
          /\ searchRet.kind = "normal" =>
                searchEvents = SearchPlan(uiRet.handle, timeouts["TYPING_TIMEOUT"])
          /\ (page[1] # "visible" /\ page[2] = "visible") =>
                /\ uiRet.handle = 2
                /\ Last(uiLog) = "warning"

\* primary selector timed out, the name fallback was visible: click, two
\* keystrokes with delay 400 and Enter on handle 2, after a warning
C16_Witness ==
    /\ searchPc = "returned"
    /\ searchRet.kind = "normal"
    /\ page[1] = "timeout" /\ page[2] = "visible"
    /\ uiLog = <<"wait", "wait", "warning">>
    /\ timeouts["TYPING_TIMEOUT"] = 400
    /\ searchEvents = SearchPlan(2, 400)
    /\ searchEvents[Len(searchEvents)].ev = "press_Enter"

\* C20: get_image_urls(limit = n) on a page with at least n loaded images,
\* each with a src or a srcset, returns exactly n urls, none of them empty, in
\* page order: the last srcset entry of an image that has a srcset, its src
\* otherwise.
C20_ExactlyLimitUrls ==
    (imgPc = "returned" /\ Len(images) >= limit) =>
        /\ Len(urls) = limit
        /\ \A i \in 1..Len(urls) :
              /\ urls[i] # <<>>
              /\ urls[i] = IF Truthy(images[i].srcset)
                           THEN last_srcset_url(images[i].srcset)
                           ELSE images[i].src

\* the destination of the download in progress was never opened: it is as the
\* initial state left it
Unopened(p) == fs[p] \in {Absent, OldFile}

\* the dispatch of the download ended without an accepted response: the last
\* attempt failed in transport or was answered with an error status
DispatchFailed ==
    history # <<>> /\ (Last(history) = 0 \/ ~ResponseOk(Last(history)))

\* C22: a download whose request fails or is answered with an error status
\* returns false without opening the destination: an existing file keeps its
\* content and no file is created; the destination is opened, and a file
\* changes, only after the response status was accepted.
C22_NoOpenBeforeAccept ==
    /\ [](op.kind = "download" =>
            /\ httpPc = "sending" => Unopened(op.path)
            /\ (httpPc = "returned" /\ DispatchFailed) =>
                  /\ ret = BoolResult(FALSE)
                  /\ Unopened(op.path)
            /\ ~Unopened(op.path) =>
                  /\ httpPc \in {"streaming", "returned"}
                  /\ history # <<>> /\ ResponseOk(Last(history)))
    /\ [][\A p \in Paths :
            fs'[p] # fs[p] =>
                /\ op.kind = "download" /\ p = op.path
                /\ httpPc \in {"opening", "streaming"}
                /\ history # <<>> /\ ResponseOk(Last(history))]_vars

\* a download answered 404 returned false and the old file at its
\* destination is still there
C22_Witness ==
    /\ DownloadReturned
    /\ history = <<404>>
    /\ exc = "HTTPError"
    /\ ret = BoolResult(FALSE)
    /\ fs[op.path] = OldFile

\* C21: wait_for_results never raises because its wait failed; it returns
\* the number of pins on the page when it returns: at least min_count when the
\* wait succeeded and no pin was removed since, possibly fewer (0 included)
\* after a timeout, which is only logged as a warning.
C21_CountAfterBoundedWait ==
    /\ resRet.kind = "raised" => resRet.exc = "count:Error"
    /\ (resPc = "returned" /\ resRet.kind = "count") =>
          /\ resRet.count = pinsOnPage
          /\ (waitOutcome = "ok" /\ ~removed) => resRet.count >= minCount
          /\ waitOutcome # "ok" => resLog = <<"info", "warning", "debug">>
    /\ (resPc = "counting" /\ waitOutcome = "ok" /\ ~removed) => pinsOnPage >= minCount

\* the wait for the second pin timed out on an empty page and the call
\* returned 0 after a warning
C21_Witness ==
    /\ resPc = "returned"
    /\ minCount = 2
    /\ waitOutcome = "TimeoutError"
    /\ resRet = [kind |-> "count", count |-> 0, exc |-> "none"]
    /\ resLog = <<"info", "warning", "debug">>

\* login has returned to its caller
LoginReturned == loginPc = "returned"

\* what C23 says of the submit click and of the redirect: a failed submit
\* click reaches the caller as the click's exception after one screenshot
\* attempt; a redirect wait that fails is only logged as a warning, login
\* returns normally and the page is still on the login URL
SubmitLoudRedirectSilent ==
    /\ loginRet.origin # "url_wait"
    /\ loginRet.origin # "submit_capture"
    /\ (LoginReturned /\ loginRet.origin = "submit_click") =>
          /\ loginRet.kind = "raised"
          /\ loginRet.exc \in PlaywrightErrors
          /\ Len(loginShots) = 1
          /\ loginUrl = "/login"
    /\ (LoginReturned /\ loginRet.kind = "normal" /\ loginUrl = "/login") =>
          /\ Last(loginLog) = "warning"
          /\ loginShots = <<>>
    /\ (LoginReturned /\ loginRet.kind = "raised") => loginUrl = "/login"

\* C23: login raises only from its primary actions (its clicks and typing):
\* a failed submit click propagates, a redirect that never leaves the login
\* URL is swallowed with a warning and login returns normally.
C23_LoudOnlyOnPrimary ==
    /\ loginRet.kind = "raised" => loginRet.origin \in PrimaryActions
    /\ SubmitLoudRedirectSilent

=============================================================================
